---- MODULE Spec2Model ----
(***************************************************************************)
(* Model of FFT_frequency_response.py: the script takes a paired           *)
(* time-domain capture (tstamps, stimulus, response), windows both         *)
(* channels, takes the one-sided FFT of each and plots the transfer        *)
(* function hr/hs as magnitude (dB) and phase (degrees).                   *)
(*                                                                         *)
(* Number representation.  The script computes in IEEE doubles; the model  *)
(* computes exactly and keeps the IEEE special values (inf, nan).          *)
(*   - samples are integers;                                               *)
(*   - window coefficients are integers in units of 1/WinUnit(kind);       *)
(*   - a spectrum value [re, im] denotes (re + im*sqrt(Rad(n))*i)/Den,     *)
(*     which is exact for the lengths n whose twiddle factors lie in Q(i)  *)
(*     or Q(sqrt(-3));                                                     *)
(*   - an extended real [k, n, d] is the rational n/d (k = "fin"), an      *)
(*     infinity with sign n (k = "inf") or a NaN (k = "nan");              *)
(*   - a magnitude [k = "fin", n, d] is sqrt(n/d), and a dB value          *)
(*     [k = "db", n, d] is 10*log10(n/d) = 20*log10(sqrt(n/d));            *)
(*   - a phase [k = "deg", n] is n degrees, [k = "atan2", n, d] is         *)
(*     180/pi*atan2(n*sqrt(Rad), d) where that is no multiple of 15        *)
(*     degrees, and [k = "szero"] is the angle of a zero quotient, which   *)
(*     numpy takes from the signs of its zero components (0 or +-180).     *)
(***************************************************************************)
EXTENDS Integers, Sequences, FiniteSets, TLC

VARIABLES pc, err, errline, assigned,
          tstamps, stimulus, response, ignore_dc, window_kind,
          dt, ns, window, ws, hs, hr, hs_db, hr_db, tf_mag, tf_phase

vars == <<pc, err, errline, assigned,
          tstamps, stimulus, response, ignore_dc, window_kind,
          dt, ns, window, ws, hs, hr, hs_db, hr_db, tf_mag, tf_phase>>

(***************************************************************************)
(* Bounds of the model.                                                    *)
(***************************************************************************)
\* A channel is an integer vector whose absolute values sum to at most this.
MaxAbsSum == 2
\* The timestamp step tstamps[1] - tstamps[0] is at most MaxStep.
MaxStep == 2
\* The constants c a response is scaled by range over 2 .. MaxScale.
MaxScale == 2

\* Channel lengths: those whose DFT twiddle factors are exactly representable.
Lengths == {2, 3, 4}
\* A response of length 1 is what numpy broadcasts against any window.
ResponseLengths == {1} \cup Lengths
WindowKinds == {"nuttall", "boxcar"}

(***************************************************************************)
(* Integers and extended reals.                                            *)
(***************************************************************************)
AbsInt(a) == IF a < 0 THEN -a ELSE a

RECURSIVE GCD(_, _)
GCD(a, b) == IF b = 0 THEN a ELSE GCD(b, a % b)

\* The rational n/d (d # 0) in lowest terms with a positive denominator.
Frac(n, d) ==
    LET g == GCD(AbsInt(n), AbsInt(d))
        s == IF d < 0 THEN -1 ELSE 1
    IN  [k |-> "fin", n |-> s * (n \div g), d |-> s * (d \div g)]

NaN == [k |-> "nan", n |-> 0, d |-> 0]
PosInf == [k |-> "inf", n |-> 1, d |-> 0]
NegInf == [k |-> "inf", n |-> -1, d |-> 0]
Zero == Frac(0, 1)

\* 1.0/x for a numpy float64 x: division by zero gives inf (a warning, no error).
Reciprocal(x) == IF x = 0 THEN PosInf ELSE Frac(1, x)

\* j * v for an integer j and an extended real v (0*inf is nan).
Times(j, v) ==
    CASE v.k = "fin" -> Frac(j * v.n, v.d)
      [] v.k = "inf" -> IF j = 0 THEN NaN
                        ELSE IF j > 0 THEN v ELSE [v EXCEPT !.n = -v.n]
      [] OTHER -> NaN

\* a < b for finite extended reals.
Less(a, b) == a.n * b.d < b.n * a.d

\* a - b for finite extended reals.
Minus(a, b) == Frac(a.n * b.d - b.n * a.d, a.d * b.d)

(***************************************************************************)
(* Arrays.                                                                 *)
(***************************************************************************)
\* The function a on 1..n as a tuple, its elements evaluated once.
AsArray(a) == SubSeq(a, 1, Len(a))

\* A faulty slice: a[:len(a) - i], which drops the last i elements.
SliceDropsLast(a, i) == SubSeq(a, 1, Len(a) - i)

\* a[i:] of a numpy array.
Slice(a, i) == SubSeq(a, i + 1, Len(a))

\* The length numpy broadcasts two 1-d arrays to: their common length, or the
\* other's when one has length 1; -1 when they cannot be broadcast together.
BroadcastLen(a, b) ==
    IF Len(a) = Len(b) THEN Len(a)
    ELSE IF Len(a) = 1 THEN Len(b)
    ELSE IF Len(b) = 1 THEN Len(a)
    ELSE -1

\* Element j of a after broadcasting: a length-1 array repeats its element.
At(a, j) == IF Len(a) = 1 THEN a[1] ELSE a[j]

\* What an elementwise operation that cannot broadcast leaves: ValueError.
ShapeError == [ok |-> FALSE, val |-> <<>>]

\* A faulty Mul: the channel and the window are added, not multiplied.
MulAsAdd(a, b) ==
    IF BroadcastLen(a, b) < 0 THEN ShapeError
    ELSE [ok |-> TRUE,
          val |-> AsArray([j \in 1..BroadcastLen(a, b) |-> At(a, j) + At(b, j)])]

\* a * b of two 1-d arrays (lines 50 and 51).
Mul(a, b) ==
    IF BroadcastLen(a, b) < 0 THEN ShapeError
    ELSE [ok |-> TRUE,
          val |-> AsArray([j \in 1..BroadcastLen(a, b) |-> At(a, j) * At(b, j)])]

(***************************************************************************)
(* Window functions (line 47).                                             *)
(***************************************************************************)
\* 2*cos(2*pi*m/M) for the M where it is rational.
Cos2(m, M) ==
    CASE M = 1 -> 2
      [] M = 2 -> IF m % 2 = 0 THEN 2 ELSE -2
      [] M = 3 -> IF m % 3 = 0 THEN 2 ELSE -1
      [] M = 4 -> <<2, 0, -2, 0>>[(m % 4) + 1]
      [] M = 6 -> <<2, 1, -1, -2, -1, 1>>[(m % 6) + 1]

\* The coefficients of scipy's 4-term Nuttall window, in units of 1e-7.
NuttallA == <<3635819, 4891775, 1365995, 106411>>

\* 1/WinUnit is the fixed-point unit a window coefficient is kept in.
WinUnit(kind) == IF kind = "nuttall" THEN 2500 ELSE 1

\* signal.windows.nuttall(n): a0 - a1*cos(f) + a2*cos(2f) - a3*cos(3f) with
\* f = 2*pi*j/(n-1), rounded to the nearest 1/2500 (the sum below is twice the
\* coefficient in units of 1e-7, so one unit of 1/2500 is 8000).
Nuttall(n) ==
    IF n = 1 THEN <<2500>>
    ELSE AsArray([j \in 1..n |->
            (2 * NuttallA[1]
             - NuttallA[2] * Cos2(j - 1, n - 1)
             + NuttallA[3] * Cos2(2 * (j - 1), n - 1)
             - NuttallA[4] * Cos2(3 * (j - 1), n - 1)
             + 4000) \div 8000])

\* The rectangular window: every coefficient is 1.
Boxcar(n) == AsArray([j \in 1..n |-> 1])

Window(kind, n) == IF kind = "nuttall" THEN Nuttall(n) ELSE Boxcar(n)

(***************************************************************************)
(* The one-sided transform and its frequency axis (lines 49-51).           *)
(***************************************************************************)
\* The imaginary parts of length-n twiddle factors are multiples of sqrt(Rad(n))/2.
Rad(n) == IF n \in {3, 6} THEN 3 ELSE 1

\* Spectrum values are kept in units of 1/Den: the window's unit, and the 2 of
\* the doubled twiddle factors.
Den(kind) == 2 * WinUnit(kind)

\* 2*sin(2*pi*m/n)/sqrt(Rad(n)).
Sin2(m, n) ==
    CASE n = 1 -> 0
      [] n = 2 -> 0
      [] n = 3 -> <<0, 1, -1>>[(m % 3) + 1]
      [] n = 4 -> <<0, 2, 0, -2>>[(m % 4) + 1]
      [] n = 6 -> <<0, 1, 1, 0, -1, -1>>[(m % 6) + 1]

\* A faulty twiddle factor: 2*exp(+2*pi*i*m/n), that of the inverse transform.
TwiddleInverse(n, m) == [re |-> Cos2(m, n), im |-> Sin2(m, n)]

\* 2*exp(-2*pi*i*m/n), the (doubled) forward twiddle factor.
Twiddle(n, m) == [re |-> Cos2(m, n), im |-> -Sin2(m, n)]

\* Sum over the first j samples of x of x[i] * exp(-2*pi*i*k*(i-1)/n).
RECURSIVE DftBin(_, _, _)
DftBin(x, k, j) ==
    IF j = 0 THEN [re |-> 0, im |-> 0]
    ELSE LET t == Twiddle(Len(x), (k * (j - 1)) % Len(x))
             r == DftBin(x, k, j - 1)
         IN  [re |-> r.re + x[j] * t.re, im |-> r.im + x[j] * t.im]

\* scipy.fft.rfft(x): bins 0 .. n//2 of the DFT of the real sequence x.
Rfft(x) == AsArray([b \in 1..((Len(x) \div 2) + 1) |-> DftBin(x, b - 1, Len(x))])

\* A faulty rfftfreq: the bin spacing is 1/d, not 1/(n*d).
RfftFreqNoLength(n, d) ==
    LET val == Reciprocal(d)
    IN  AsArray([b \in 1..((n \div 2) + 1) |-> Times(b - 1, val)])

\* scipy.fft.rfftfreq(n, d): val = 1.0/(n*d); arange(0, n//2 + 1) * val.
RfftFreq(n, d) ==
    LET val == Reciprocal(n * d)
    IN  AsArray([b \in 1..((n \div 2) + 1) |-> Times(b - 1, val)])

\* A faulty line 49: the frequency axis keeps its DC entry.
FreqAxisNoSlice(n, d, idc) == RfftFreq(n, d)

\* Line 49: ws = rfftfreq(ns, dt)[ignore_dc:].
FreqAxis(n, d, idc) == Slice(RfftFreq(n, d), idc)

\* Line 50: stimulus * window.
WindowedStimulus(s, w) == Mul(s, w)

\* A faulty line 51: the response is transformed without its window.
WindowedResponseNoWindow(r, w) == [ok |-> TRUE, val |-> r]

\* Line 51: response * window.
WindowedResponse(r, w) == Mul(r, w)

\* Line 50: hs = rfft(stimulus * window)[ignore_dc:] (the product is given).
StimulusSpectrum(sw, idc) == Slice(Rfft(sw), idc)

\* Line 51: hr = rfft(response * window)[ignore_dc:] (the product is given).
ResponseSpectrum(rw, idc) == Slice(Rfft(rw), idc)

(***************************************************************************)
(* Magnitudes, decibels and phases (lines 52-53, 79, 88).                  *)
(***************************************************************************)
\* np.abs(z): the magnitude sqrt(n/d) of a spectrum value.
Abs(z, den, rad) == Frac(z.re * z.re + rad * z.im * z.im, den * den)

\* np.log10 of an extended real, times 20: log10(0) is -inf (a warning).
Log10x20(m) ==
    CASE m.k = "nan" -> NaN
      [] m.k = "inf" -> IF m.n > 0 THEN PosInf ELSE NaN
      [] m.n = 0 -> NegInf
      [] OTHER -> [k |-> "db", n |-> m.n, d |-> m.d]

\* Lines 52 and 53: 20*np.log10(np.abs(h)).
ToDb(h, kind, n) ==
    AsArray([b \in 1..Len(h) |-> Log10x20(Abs(h[b], Den(kind), Rad(n)))])

\* The quotient (a.n/a.d)/(b.n/b.d) of two positive rationals, in lowest terms.
Ratio(a, b) ==
    LET gn == GCD(a.n, b.n)
        gd == GCD(a.d, b.d)
    IN  Frac((a.n \div gn) * (b.d \div gd), (b.n \div gn) * (a.d \div gd))

\* A faulty subtraction: b - a.
DbSubSwapped(a, b) ==
    CASE a.k = "nan" \/ b.k = "nan" -> NaN
      [] a.k = "inf" /\ b.k = "inf" -> IF a.n = b.n THEN NaN ELSE b
      [] b.k = "inf" -> b
      [] a.k = "inf" -> [a EXCEPT !.n = -a.n]
      [] OTHER -> [Ratio(b, a) EXCEPT !.k = "db"]

\* a - b for two dB values, as IEEE subtracts: inf - inf is nan.
DbSub(a, b) ==
    CASE a.k = "nan" \/ b.k = "nan" -> NaN
      [] a.k = "inf" /\ b.k = "inf" -> IF a.n = b.n THEN NaN ELSE a
      [] a.k = "inf" -> a
      [] b.k = "inf" -> [b EXCEPT !.n = -b.n]
      [] OTHER -> [Ratio(a, b) EXCEPT !.k = "db"]

\* Line 79: hr_db - hs_db, elementwise.
TransferMagnitude(hrdb, hsdb) ==
    IF BroadcastLen(hrdb, hsdb) < 0 THEN ShapeError
    ELSE [ok |-> TRUE,
          val |-> AsArray([j \in 1..BroadcastLen(hrdb, hsdb) |->
                              DbSub(At(hrdb, j), At(hsdb, j))])]

CNaN == [k |-> "nan", re |-> 0, im |-> 0, d |-> 0]

\* a*conj(b)/|b|^2 in lowest terms, for b # 0.
CQuot(a, b, rad) ==
    LET u == a.re * b.re + rad * a.im * b.im
        v == a.im * b.re - a.re * b.im
        w == b.re * b.re + rad * b.im * b.im
        g == GCD(GCD(AbsInt(u), AbsInt(v)), w)
    IN  [k |-> "fin", re |-> u \div g, im |-> v \div g, d |-> w \div g]

\* A faulty division: a zero divisor gives a zero quotient.
CDivGuarded(a, b, rad) ==
    IF b.re = 0 /\ b.im = 0 THEN [k |-> "fin", re |-> 0, im |-> 0, d |-> 1]
    ELSE CQuot(a, b, rad)

\* a/b for two spectrum values (same units); a zero divisor gives inf and nan
\* components (a warning, no error).
CDiv(a, b, rad) ==
    IF b.re = 0 /\ b.im = 0 THEN CNaN ELSE CQuot(a, b, rad)

Deg(n) == [k |-> "deg", n |-> n, d |-> 1]
SignedZeroAngle == [k |-> "szero", n |-> 0, d |-> 0]

\* 180/np.pi*np.angle(q): the principal argument of q in degrees.  A negative
\* real q gives 180 here; numpy gives -180 when its imaginary part is -0.0.
AngleDeg(q, rad) ==
    IF q.k = "nan" THEN NaN
    ELSE IF q.re = 0 /\ q.im = 0 THEN SignedZeroAngle
    ELSE LET g == GCD(AbsInt(q.re), AbsInt(q.im))
             u == q.re \div g
             v == q.im \div g
             up == IF v > 0 THEN 1 ELSE -1
         IN  CASE v = 0 -> IF u > 0 THEN Deg(0) ELSE Deg(180)
               [] u = 0 -> Deg(up * 90)
               [] rad = 1 /\ AbsInt(u) = AbsInt(v) ->
                     IF u > 0 THEN Deg(up * 45) ELSE Deg(up * 135)
               [] rad = 3 /\ AbsInt(u) = AbsInt(v) ->
                     IF u > 0 THEN Deg(up * 60) ELSE Deg(up * 120)
               [] rad = 3 /\ AbsInt(u) = 3 * AbsInt(v) ->
                     IF u > 0 THEN Deg(up * 30) ELSE Deg(up * 150)
               [] OTHER -> [k |-> "atan2", n |-> v, d |-> u]

\* Line 88: 180/np.pi*np.angle(hr/hs), elementwise.
TransferPhase(h_r, h_s, n) ==
    IF BroadcastLen(h_r, h_s) < 0 THEN ShapeError
    ELSE [ok |-> TRUE,
          val |-> AsArray([j \in 1..BroadcastLen(h_r, h_s) |->
                              AngleDeg(CDiv(At(h_r, j), At(h_s, j), Rad(n)),
                                       Rad(n))])]

(***************************************************************************)
(* Inputs.                                                                 *)
(***************************************************************************)
RECURSIVE SumAbs(_, _)
SumAbs(x, j) == IF j = 0 THEN 0 ELSE AbsInt(x[j]) + SumAbs(x, j - 1)

\* The integer vectors of length n the model feeds in as a channel.
Channels(n) ==
    {x \in [1..n -> (-MaxAbsSum)..MaxAbsSum] : SumAbs(x, n) <= MaxAbsSum}

\* Uniform timestamps, one per stimulus sample, starting at 0.
TimeAxis(n, step) == [j \in 1..n |-> (j - 1) * step]

\* The steps of a capture sampled forward in time, and those of any capture.
PositiveSteps == 1..MaxStep
AnySteps == (-1)..MaxStep

\* The state at line 44, the capture loaded (line 40) and ignore_dc set
\* (line 42), for a stimulus of length n, a response of length m and a
\* timestamp step in steps.
Loaded(n, m, steps) ==
    /\ stimulus \in Channels(n)
    /\ response \in Channels(m)
    /\ \E step \in steps : tstamps = TimeAxis(n, step)
    /\ ignore_dc \in {0, 1}
    /\ window_kind \in WindowKinds
    /\ pc = "process"
    /\ err = "none"
    /\ errline = 0
    /\ assigned = {}
    /\ dt = 0
    /\ ns = 0
    /\ window = <<>>
    /\ ws = <<>>
    /\ hs = <<>>
    /\ hr = <<>>
    /\ hs_db = <<>>
    /\ hr_db = <<>>
    /\ tf_mag = <<>>
    /\ tf_phase = <<>>

\* Captures whose two channels have the same length and whose timestamps
\* increase: the inputs the script is written for.
Init == \E n \in Lengths : Loaded(n, n, PositiveSteps)

\* Any capture: the channels may differ in length, and the timestamps may
\* stand still or run backwards.
InitAnyInput ==
    \E n \in Lengths : \E m \in ResponseLengths : Loaded(n, m, AnySteps)

(***************************************************************************)
(* The script, from line 45 on.                                            *)
(***************************************************************************)
\* Lines 45-53.  The only statement that can raise is line 51, when numpy
\* cannot broadcast the response against the window.
Process ==
    /\ pc = "process"
    /\ LET d == tstamps[2] - tstamps[1]
           n == Len(stimulus)
           w == Window(window_kind, n)
           sw == WindowedStimulus(stimulus, w)
           rw == WindowedResponse(response, w)
           s == StimulusSpectrum(sw.val, ignore_dc)
       IN  /\ dt' = d
           /\ ns' = n
           /\ window' = w
           /\ ws' = FreqAxis(n, d, ignore_dc)
           /\ hs' = s
           /\ IF rw.ok
              THEN LET r == ResponseSpectrum(rw.val, ignore_dc)
                   IN  /\ hr' = r
                       /\ hs_db' = ToDb(s, window_kind, n)
                       /\ hr_db' = ToDb(r, window_kind, n)
                       /\ assigned' = {"dt", "ns", "window", "ws", "hs", "hr",
                                       "hs_db", "hr_db"}
                       /\ pc' = "plot_signals"
                       /\ UNCHANGED <<err, errline>>
              ELSE /\ assigned' = {"dt", "ns", "window", "ws", "hs"}
                   /\ err' = "ValueError"
                   /\ errline' = 51
                   /\ pc' = "failed"
                   /\ UNCHANGED <<hr, hs_db, hr_db>>
    /\ UNCHANGED <<tstamps, stimulus, response, ignore_dc, window_kind,
                   tf_mag, tf_phase>>

\* Lines 56-74: the time-domain and absolute-magnitude plots.  plot(x, y)
\* and semilogx(x, y) raise ValueError when x and y differ in length.
PlotSignals ==
    /\ pc = "plot_signals"
    /\ IF Len(tstamps) # Len(stimulus)
       THEN /\ err' = "ValueError"
            /\ errline' = 60
            /\ pc' = "failed"
       ELSE IF Len(tstamps) # Len(response)
       THEN /\ err' = "ValueError"
            /\ errline' = 61
            /\ pc' = "failed"
       ELSE IF Len(ws) # Len(hs_db)
       THEN /\ err' = "ValueError"
            /\ errline' = 69
            /\ pc' = "failed"
       ELSE IF Len(ws) # Len(hr_db)
       THEN /\ err' = "ValueError"
            /\ errline' = 70
            /\ pc' = "failed"
       ELSE /\ pc' = "plot_magnitude"
            /\ UNCHANGED <<err, errline>>
    /\ UNCHANGED <<assigned, tstamps, stimulus, response, ignore_dc,
                   window_kind, dt, ns, window, ws, hs, hr, hs_db, hr_db,
                   tf_mag, tf_phase>>

\* Lines 77-85: the transfer function's magnitude, plotted against ws.
PlotMagnitude ==
    /\ pc = "plot_magnitude"
    /\ LET m == TransferMagnitude(hr_db, hs_db)
       IN  IF m.ok /\ Len(m.val) = Len(ws)
           THEN /\ tf_mag' = m.val
                /\ assigned' = assigned \cup {"tf_mag"}
                /\ pc' = "plot_phase"
                /\ UNCHANGED <<err, errline>>
           ELSE /\ err' = "ValueError"
                /\ errline' = 79
                /\ pc' = "failed"
                /\ UNCHANGED <<tf_mag, assigned>>
    /\ UNCHANGED <<tstamps, stimulus, response, ignore_dc,
                   window_kind, dt, ns, window, ws, hs, hr, hs_db, hr_db,
                   tf_phase>>

\* Lines 87-94: the transfer function's phase, plotted against ws, and the
\* figure is shown.
PlotPhase ==
    /\ pc = "plot_phase"
    /\ LET p == TransferPhase(hr, hs, ns)
       IN  IF p.ok /\ Len(p.val) = Len(ws)
           THEN /\ tf_phase' = p.val
                /\ assigned' = assigned \cup {"tf_phase"}
                /\ pc' = "done"
                /\ UNCHANGED <<err, errline>>
           ELSE /\ err' = "ValueError"
                /\ errline' = 88
                /\ pc' = "failed"
                /\ UNCHANGED <<tf_phase, assigned>>
    /\ UNCHANGED <<tstamps, stimulus, response, ignore_dc,
                   window_kind, dt, ns, window, ws, hs, hr, hs_db, hr_db,
                   tf_mag>>

Next == Process \/ PlotSignals \/ PlotMagnitude \/ PlotPhase

Spec == Init /\ [][Next]_vars

SpecAnyInput == InitAnyInput /\ [][Next]_vars

(***************************************************************************)
(* The whole computation as a function of its inputs, for comparing the    *)
(* run in the state with a run on other inputs or another configuration.   *)
(***************************************************************************)
\* Lines 45-53, 79 and 88 on a capture whose channels have the same length.
Pipeline(ts, s, r, kind, idc) ==
    LET d == ts[2] - ts[1]
        n == Len(s)
        w == Window(kind, n)
        h_s == StimulusSpectrum(WindowedStimulus(s, w).val, idc)
        h_r == ResponseSpectrum(WindowedResponse(r, w).val, idc)
        sdb == ToDb(h_s, kind, n)
        rdb == ToDb(h_r, kind, n)
    IN  [ws |-> FreqAxis(n, d, idc),
         hs |-> h_s,
         hr |-> h_r,
         hs_db |-> sdb,
         hr_db |-> rdb,
         tf_mag |-> TransferMagnitude(rdb, sdb).val,
         tf_phase |-> TransferPhase(h_r, h_s, n).val]

\* The five output sequences of the run in the state.
Outputs ==
    [ws |-> ws, hs_db |-> hs_db, hr_db |-> hr_db,
     tf_mag |-> tf_mag, tf_phase |-> tf_phase]

OutputNames == {"ws", "hs_db", "hr_db", "tf_mag", "tf_phase"}

Done == pc = "done"
IsZero(z) == z.re = 0 /\ z.im = 0
ZeroDb == [k |-> "db", n |-> 1, d |-> 1]

\* The spectra before line 49-51's [ignore_dc:], every bin kept.
FullStimulusSpectrum == Rfft(WindowedStimulus(stimulus, window).val)
FullResponseSpectrum == Rfft(WindowedResponse(response, window).val)

(***************************************************************************)
(* C1.  For a stimulus/response pair of equal length N >= 2 and either     *)
(* value of ignore_dc, the frequency axis and the two absolute spectra     *)
(* have the same length once lines 45-53 have run, at the end the transfer *)
(* magnitude and phase have that length too, and entry j of each of the    *)
(* five is the value of bin j - 1 + ignore_dc.                             *)
(***************************************************************************)
C1_OutputsAligned ==
    /\ (Len(stimulus) = Len(response) /\ pc = "plot_signals") =>
          /\ err = "none"
          /\ Len(ws) = (ns \div 2) + 1 - ignore_dc
          /\ Len(hs_db) = Len(ws)
          /\ Len(hr_db) = Len(ws)
    /\ (Len(stimulus) = Len(response) /\ Done) =>
          \A fs \in {FullStimulusSpectrum} : \A fr \in {FullResponseSpectrum} :
          \A sdb \in {ToDb(fs, window_kind, ns)} :
          \A rdb \in {ToDb(fr, window_kind, ns)} :
          \A freqs \in {RfftFreq(ns, dt)} :
          LET m == (ns \div 2) + 1 - ignore_dc
          IN  /\ err = "none"
              /\ Len(ws) = m /\ Len(hs_db) = m /\ Len(hr_db) = m
              /\ Len(tf_mag) = m /\ Len(tf_phase) = m
              /\ \A j \in 1..m :
                    LET b == j + ignore_dc
                    IN  /\ ws[j] = freqs[b]
                        /\ hs_db[j] = sdb[b]
                        /\ hr_db[j] = rdb[b]
                        /\ tf_mag[j] = DbSub(rdb[b], sdb[b])
                        /\ tf_phase[j] =
                              AngleDeg(CDiv(fr[b], fs[b], Rad(ns)), Rad(ns))

C1_Witness ==
    /\ Done
    /\ ignore_dc = 1
    /\ Len(stimulus) = 4 /\ Len(response) = 4
    /\ Len(ws) = 2 /\ Len(tf_mag) = 2 /\ Len(tf_phase) = 2

(***************************************************************************)
(* C2.  For the same capture and window, each of the five outputs with     *)
(* ignore_dc = 1 is one element shorter than with ignore_dc = 0, and its   *)
(* element j equals element j + 1 of the ignore_dc = 0 output: only bin 0  *)
(* is removed, from the frequency axis and from both spectra alike.        *)
(***************************************************************************)
C2_DcDropIsUniform ==
    Done =>
        \A other \in {Pipeline(tstamps, stimulus, response, window_kind,
                              1 - ignore_dc)} :
        LET short == IF ignore_dc = 1 THEN Outputs ELSE other
            long == IF ignore_dc = 1 THEN other ELSE Outputs
        IN  \A f \in OutputNames :
                /\ Len(short[f]) + 1 = Len(long[f])
                /\ \A j \in 1..Len(short[f]) : short[f][j] = long[f][j + 1]

C2_Witness ==
    /\ Done
    /\ ignore_dc = 1
    /\ Len(stimulus) = 4
    /\ stimulus # response
    /\ Len(tf_mag) = 2
    /\ Len(Pipeline(tstamps, stimulus, response, window_kind, 0).tf_mag) = 3

(***************************************************************************)
(* C6.  For a capture of length N >= 2 with a positive sample period dt,   *)
(* rfftfreq gives floor(N/2) + 1 entries, entry k being k/(N*dt); the axis *)
(* left by the DC policy is strictly increasing, its first entry is 0      *)
(* exactly when ignore_dc is 0, and its last entry is less than one bin    *)
(* width 1/(N*dt) away from the Nyquist frequency 1/(2*dt).                *)
(***************************************************************************)
C6_FrequencyAxis ==
    (pc = "plot_signals" /\ dt > 0) =>
        LET full == RfftFreq(ns, dt)
            last == ws[Len(ws)]
            nyquist == Frac(1, 2 * dt)
            width == Frac(1, ns * dt)
        IN  /\ Len(full) = (ns \div 2) + 1
            /\ \A b \in 1..Len(full) : full[b] = Frac(b - 1, ns * dt)
            /\ Len(ws) = Len(full) - ignore_dc
            /\ \A j \in 1..Len(ws) : ws[j] = Frac(j - 1 + ignore_dc, ns * dt)
            /\ \A j \in 1..(Len(ws) - 1) : Less(ws[j], ws[j + 1])
            /\ (ws[1] = Zero) <=> (ignore_dc = 0)
            /\ Less(Minus(last, nyquist), width)
            /\ Less(Minus(nyquist, last), width)

C6_Witness ==
    /\ pc = "plot_signals"
    /\ ns = 3
    /\ dt = 2
    /\ ignore_dc = 1
    /\ ws = <<Frac(1, 6)>>

(***************************************************************************)
(* C3.  As stated: whenever the response is identical to the stimulus,     *)
(* the transfer function is 0 dB and 0 degrees at every retained bin,      *)
(* whatever the window.                                                    *)
(***************************************************************************)
C3_IdenticalSignalsZeroEverywhere ==
    (Done /\ stimulus = response) =>
        \A j \in 1..Len(ws) : tf_mag[j] = ZeroDb /\ tf_phase[j] = Deg(0)

\* The capture of the N = 4 scenario: stimulus = response = [1, 0, -1, 0],
\* sample period 1, rectangular window, DC kept.
C3_Scenario ==
    /\ stimulus = <<1, 0, -1, 0>>
    /\ response = <<1, 0, -1, 0>>
    /\ tstamps = <<0, 1, 2, 3>>
    /\ window_kind = "boxcar"
    /\ ignore_dc = 0

(***************************************************************************)
(* C3, amended.  Whenever the response is identical to the stimulus, the   *)
(* transfer function is 0 dB and 0 degrees at every retained bin where     *)
(* the stimulus spectrum is nonzero, and NaN in both magnitude and phase   *)
(* at every retained bin where it is zero, whatever the window.  In the    *)
(* N = 4 scenario the three bins are [NaN, 0, NaN] in magnitude and in     *)
(* phase: [1, 0, -1, 0] has no energy at DC nor at the Nyquist frequency.  *)
(***************************************************************************)
C3_IdenticalSignals ==
    (Done /\ stimulus = response) =>
        /\ \A j \in 1..Len(ws) :
              IF IsZero(hs[j])
              THEN tf_mag[j] = NaN /\ tf_phase[j] = NaN
              ELSE tf_mag[j] = ZeroDb /\ tf_phase[j] = Deg(0)
        /\ C3_Scenario =>
              /\ tf_mag = <<NaN, ZeroDb, NaN>>
              /\ tf_phase = <<NaN, Deg(0), NaN>>

C3_Witness ==
    /\ Done
    /\ C3_Scenario
    /\ Len(ws) = 3
    /\ tf_mag[1] = NaN /\ tf_mag[2] = ZeroDb /\ tf_phase[3] = NaN

(***************************************************************************)
(* C4.  As stated: a capture whose channels differ in length is rejected   *)
(* with an error before either channel is windowed or transformed.         *)
(***************************************************************************)
C4_MismatchRejectedAtConstruction ==
    (Len(stimulus) # Len(response) /\ tstamps[2] > tstamps[1]
                                   /\ pc # "process") =>
        /\ pc = "failed"
        /\ err # "none"
        /\ assigned \cap {"window", "ws", "hs", "hr"} = {}

(***************************************************************************)
(* C5.  As stated: a capture whose sample period is zero or negative is    *)
(* rejected with an error, and no frequency axis or transfer function is   *)
(* produced.                                                               *)
(***************************************************************************)
C5_BadPeriodRejected ==
    (Len(stimulus) = Len(response) /\ tstamps[2] <= tstamps[1]
                                   /\ pc # "process") =>
        /\ pc = "failed"
        /\ err # "none"
        /\ assigned \cap {"ws", "tf_mag", "tf_phase"} = {}

C8_Scenario ==
    /\ stimulus = <<1, 0, -1, 0>>
    /\ response = <<0, 1, 0, -1>>
    /\ tstamps = <<0, 1, 2, 3>>
    /\ window_kind = "boxcar"

C8_QuarterCycleDelay ==
    (Done /\ C8_Scenario) =>
        /\ ws[2 - ignore_dc] = Frac(1, 4)
        /\ tf_mag[2 - ignore_dc] = ZeroDb
        /\ tf_phase[2 - ignore_dc] = Deg(-90)

C8_Witness ==
    /\ Done
    /\ C8_Scenario
    /\ ignore_dc = 0
    /\ hs[2] = [re |-> 4, im |-> 0]
    /\ hr[2] = [re |-> 0, im |-> -4]
    /\ tf_phase[2] = Deg(-90)

(***************************************************************************)
(* C9.  For every constant c in 2..MaxScale, running the script on the     *)
(* same capture with the response multiplied by c multiplies the response  *)
(* spectrum's magnitude by c at every retained bin, so that the transfer   *)
(* magnitude moves up by 20*log10(c) dB (an infinite or NaN magnitude      *)
(* stays what it is), and leaves the phase unchanged at every retained     *)
(* bin.                                                                    *)
(***************************************************************************)
\* c * response.
Scale(c, r) == [j \in 1..Len(r) |-> c * r[j]]

\* The constants a response is scaled by (c = 1 changes nothing).
Scales == 2..MaxScale

\* a + 20*log10(c) for a dB value a and an integer c >= 1, as IEEE adds.
DbShift(a, c) ==
    IF a.k = "db" THEN [Frac(a.n * c * c, a.d) EXCEPT !.k = "db"] ELSE a

\* Line 51 on the response multiplied by c.
ScaledResponseSpectrum(c) ==
    ResponseSpectrum(WindowedResponse(Scale(c, response), window).val, ignore_dc)

C9_ScalingInvariance ==
    Done =>
        \A c \in Scales :
        \A shr \in {ScaledResponseSpectrum(c)} :
        \A smag \in {TransferMagnitude(ToDb(shr, window_kind, ns), hs_db)} :
        \A sphase \in {TransferPhase(shr, hs, ns)} :
            /\ smag.ok /\ Len(smag.val) = Len(tf_mag)
            /\ sphase.ok /\ Len(sphase.val) = Len(tf_phase)
            /\ \A j \in 1..Len(tf_mag) :
                  LET a == Abs(hr[j], Den(window_kind), Rad(ns))
                  IN  /\ Abs(shr[j], Den(window_kind), Rad(ns))
                            = Frac(c * c * a.n, a.d)
                      /\ smag.val[j] = DbShift(tf_mag[j], c)
                      /\ sphase.val[j] = tf_phase[j]

C9_Witness ==
    /\ Done
    /\ 2 \in Scales
    /\ \E j \in 1..Len(tf_mag) :
          /\ tf_mag[j].k = "db"
          /\ tf_phase[j] = Deg(-90)
          /\ Pipeline(tstamps, stimulus, Scale(2, response), window_kind,
                      ignore_dc).tf_mag[j]
                = [Frac(4 * tf_mag[j].n, tf_mag[j].d) EXCEPT !.k = "db"]

(***************************************************************************)
(* C10.  At every retained bin where the stimulus spectrum is nonzero,     *)
(* the difference of dB values the script computes equals the ratio form   *)
(* 20*log10(|hr|/|hs|), also where the response spectrum is zero (both     *)
(* are -inf); the two forms can differ only where the stimulus spectrum    *)
(* is zero.                                                                *)
(***************************************************************************)
\* a/b for two magnitudes, as IEEE divides: x/0 is inf, 0/0 is nan.
MagDiv(a, b) ==
    IF b.n = 0 THEN (IF a.n = 0 THEN NaN ELSE PosInf)
    ELSE IF a.n = 0 THEN Zero
    ELSE Ratio(a, b)

\* The ratio form of the transfer magnitude: 20*log10(|z_r|/|z_s|).
RatioDb(z_r, z_s, kind, n) ==
    Log10x20(MagDiv(Abs(z_r, Den(kind), Rad(n)), Abs(z_s, Den(kind), Rad(n))))

C10_DifferenceEqualsRatio ==
    Done =>
        \A j \in 1..Len(hs) :
            ~IsZero(hs[j]) =>
                /\ tf_mag[j] = RatioDb(hr[j], hs[j], window_kind, ns)
                /\ IsZero(hr[j]) => tf_mag[j] = NegInf

C10_Witness ==
    /\ Done
    /\ \E j \in 1..Len(hs) :
          ~IsZero(hs[j]) /\ IsZero(hr[j]) /\ tf_mag[j] = NegInf
    /\ \E j \in 1..Len(hs) :
          ~IsZero(hs[j]) /\ ~IsZero(hr[j]) /\ tf_mag[j] # ZeroDb

====
